---- MODULE Spec2Model ----
(***************************************************************************)
(* A model of examples/merge_signals_with_crsp.ipynb: the notebook lags    *)
(* the monthly signal table by one month, left-joins it onto the CRSP      *)
(* return table and runs a portfolio sort (quantile buckets per date, then *)
(* two group-by aggregations) once for BM and once for AssetGrowth.        *)
(*                                                                         *)
(* Tables are sequences of records (a DataFrame's rows in index order).    *)
(* A cell value that may be missing is << >> (NaN / NaT) or <<v>>.         *)
(* Signal values and returns are floats in the notebook; the model draws   *)
(* them from the integers and computes quantile edges, means and variances *)
(* exactly, as rationals.                                                  *)
(***************************************************************************)
EXTENDS Integers, Sequences, FiniteSets, TLC

VARIABLES signals, crsp, signals_lag, crsp_signals,
          n, signalname, temp, port, port_summary, err, pc

vars == <<signals, crsp, signals_lag, crsp_signals,
          n, signalname, temp, port, port_summary, err, pc>>

(***************************************************************************)
(* Bounds of the model.                                                    *)
(***************************************************************************)
\* Entities (permno) of the enumerated cross-sections; signal values are
\* drawn from 1..MaxPermno too, so that ties and all-distinct values occur.
MaxPermno == 3
\* n (the number of portfolios) is drawn from 1..MaxGroups and the
\* notebook's own value.
MaxGroups == 3
\* Longest signal table of the merge-focused inputs.
MaxSignalRows == 2

\* The notebook's n, "the number of portfolios".
NotebookN == 5

(***************************************************************************)
(* Missing values.                                                         *)
(***************************************************************************)
NaN == << >>

Some(v) == <<v>>

isna(x) == x = NaN

Get(x) == x[1]

(***************************************************************************)
(* Dates.  A Timestamp is [year, month, day].  A date string of digits     *)
(* ('198012', '19801228') is modelled by the number the digits spell.      *)
(***************************************************************************)
Timestamp(y, m, d) == [year |-> y, month |-> m, day |-> d]

\* Series.astype(str) + '28': the digits of yyyymm followed by "28".
AppendDay28(yyyymm) == yyyymm * 100 + 28

\* pd.to_datetime(s, format='%Y%m%d'): four digits of year, two of month,
\* two of day.
to_datetime(s) ==
    Timestamp(s \div 10000, (s \div 100) % 100, s % 100)

\* Series.dt.strftime('%Y%m'): the digits of the year then of the month.
strftime_Ym(ts) == ts.year * 100 + ts.month

IsLeap(y) == (y % 4 = 0 /\ y % 100 # 0) \/ y % 400 = 0

DaysInMonth(y, m) ==
    IF m = 2 THEN (IF IsLeap(y) THEN 29 ELSE 28)
    ELSE IF m \in {4, 6, 9, 11} THEN 30 ELSE 31

Min2(a, b) == IF a <= b THEN a ELSE b

\* A lag that forgets the year rollover: the month is incremented as a number.
DateOffsetNoRollover(ts) == Timestamp(ts.year, ts.month + 1, ts.day)

\* ts + pd.DateOffset(months=1): the next calendar month, December rolling
\* over to January of the next year, the day kept unless the month is shorter.
DateOffsetMonths1(ts) ==
    LET y == IF ts.month = 12 THEN ts.year + 1 ELSE ts.year
        m == IF ts.month = 12 THEN 1 ELSE ts.month + 1
    IN  Timestamp(y, m, Min2(ts.day, DaysInMonth(y, m)))

\* The order of Timestamps (used by groupby's sort and by min / max).
DateKey(ts) == ts.year * 10000 + ts.month * 100 + ts.day

(***************************************************************************)
(* Cell 7: lag signals.                                                    *)
(***************************************************************************)
LagRow(r) ==
    [permno |-> r.permno,
     yyyymm_signals |-> r.yyyymm,
     BM |-> r.BM,
     AssetGrowth |-> r.AssetGrowth,
     date |-> DateOffsetMonths1(to_datetime(AppendDay28(r.yyyymm)))]

LagTable(sig) == [i \in DOMAIN sig |-> LagRow(sig[i])]

(***************************************************************************)
(* Cell 9: crsp dates to the 28th, then the left join.                     *)
(***************************************************************************)
CrspTo28th(c) ==
    [i \in DOMAIN c |->
        [permno |-> c[i].permno,
         date |-> to_datetime(AppendDay28(strftime_Ym(c[i].date))),
         ret |-> c[i].ret]]

KeyMatch(l, r) == l.permno = r.permno /\ l.date = r.date

MergedRow(l, r) ==
    [permno |-> l.permno, date |-> l.date, ret |-> l.ret,
     yyyymm_signals |-> Some(r.yyyymm_signals),
     BM |-> r.BM, AssetGrowth |-> r.AssetGrowth]

UnmatchedRow(l) ==
    [permno |-> l.permno, date |-> l.date, ret |-> l.ret,
     yyyymm_signals |-> NaN, BM |-> NaN, AssetGrowth |-> NaN]

\* how='inner' in place of how='left': a left row with no match is dropped.
JoinOneInner(l, right) ==
    LET hits == SelectSeq(right, LAMBDA r : KeyMatch(l, r))
    IN  [k \in DOMAIN hits |-> MergedRow(l, hits[k])]

\* The rows one left row contributes: one per matching right row, in the
\* right table's order, or a single row of missing values when none matches.
JoinOne(l, right) ==
    LET hits == SelectSeq(right, LAMBDA r : KeyMatch(l, r))
    IN  IF hits = << >> THEN <<UnmatchedRow(l)>>
        ELSE [k \in DOMAIN hits |-> MergedRow(l, hits[k])]

RECURSIVE LeftJoinFrom(_, _, _)
LeftJoinFrom(left, right, i) ==
    IF i > Len(left) THEN << >>
    ELSE JoinOne(left[i], right) \o LeftJoinFrom(left, right, i + 1)

\* pd.merge(left, right, on=['permno', 'date'], how='left')
merge_left(left, right) == LeftJoinFrom(left, right, 1)

(***************************************************************************)
(* Exact rationals [num, den], den > 0, in lowest terms.                   *)
(***************************************************************************)
Abs(a) == IF a < 0 THEN -a ELSE a

RECURSIVE GCD(_, _)
GCD(a, b) == IF b = 0 THEN a ELSE GCD(b, a % b)

Rat(a, b) ==
    LET g == GCD(Abs(a), Abs(b))
        s == IF b < 0 THEN -1 ELSE 1
    IN  [num |-> (s * a) \div g, den |-> (s * b) \div g]

RatAdd(p, q) == Rat(p.num * q.den + q.num * p.den, p.den * q.den)

RatSub(p, q) == Rat(p.num * q.den - q.num * p.den, p.den * q.den)

RatMul(p, q) == Rat(p.num * q.num, p.den * q.den)

RatDivInt(p, k) == Rat(p.num, p.den * k)

RECURSIVE SumInt(_, _)
SumInt(f, S) ==
    IF S = {} THEN 0
    ELSE LET i == CHOOSE j \in S : TRUE IN f[i] + SumInt(f, S \ {i})

RECURSIVE SumRat(_, _)
SumRat(f, S) ==
    IF S = {} THEN Rat(0, 1)
    ELSE LET i == CHOOSE j \in S : TRUE IN RatAdd(f[i], SumRat(f, S \ {i}))

(***************************************************************************)
(* pd.qcut(x, q, labels=list(range(1, q+1))) on one date's signal series.  *)
(* A series is a function from the rows' index labels to cell values.      *)
(***************************************************************************)
\* The index labels of the non-missing values (Series.dropna()).
NotNa(x) == {i \in DOMAIN x : ~isna(x[i])}

\* The k-th smallest non-missing value, k counted from 0.
OrderStat(x, k) ==
    LET I == NotNa(x)
    IN  CHOOSE v \in {Get(x[i]) : i \in I} :
            /\ Cardinality({i \in I : Get(x[i]) < v}) <= k
            /\ k < Cardinality({i \in I : Get(x[i]) <= v})

\* interpolation='higher' in place of the linear interpolation.
QuantileTimesHigher(x, q, i) ==
    LET m   == Cardinality(NotNa(x))
        pos == (m - 1) * i
        lo  == pos \div q
        rem == pos % q
    IN  IF rem = 0 THEN q * OrderStat(x, lo) ELSE q * OrderStat(x, lo + 1)

\* q times the quantile at i/q of the non-missing values, by linear
\* interpolation between the order statistics around position (m-1)*i/q.
QuantileTimes(x, q, i) ==
    LET m   == Cardinality(NotNa(x))
        pos == (m - 1) * i
        lo  == pos \div q
        rem == pos % q
    IN  IF rem = 0 THEN q * OrderStat(x, lo)
        ELSE q * OrderStat(x, lo)
             + rem * (OrderStat(x, lo + 1) - OrderStat(x, lo))

\* The q+1 bin edges (times q): the quantiles at linspace(0, 1, q+1); the
\* quantiles of an empty series are NaN.
BinEdges(x, q) ==
    [j \in 1..(q + 1) |->
        IF NotNa(x) = {} THEN NaN ELSE Some(QuantileTimes(x, q, j - 1))]

\* The uniqueness check without its exemption for two edges.
DuplicateEdgesAnyLength(bins) ==
    Cardinality({bins[j] : j \in DOMAIN bins}) < Len(bins)

\* No uniqueness check at all.
DuplicateEdgesIgnored(bins) == FALSE

\* _bins_to_cuts: "Bin edges must be unique" unless there are just two edges.
DuplicateEdges(bins) ==
    /\ Cardinality({bins[j] : j \in DOMAIN bins}) < Len(bins)
    /\ Len(bins) # 2

\* labels=list(range(q, 0, -1)): the labels in descending order.
LabelsDescending(q) == [k \in 1..q |-> q + 1 - k]

\* labels=list(range(1, q+1))
Labels(q) == [k \in 1..q |-> k]

\* include_lowest=False: the lowest edge is left outside the first bin.
BinOfExcludingLowest(bins, q, v) ==
    LET below == Cardinality({j \in DOMAIN bins :
                                 ~isna(bins[j]) /\ Get(bins[j]) < q * v})
    IN  IF below = 0 \/ below = Len(bins) THEN NaN ELSE Some(Labels(q)[below])

\* The bin of value v: searchsorted(side='left') counts the edges below v,
\* the lowest edge itself is put in the first bin (include_lowest), and a
\* value outside every bin is masked as missing.
BinOf(bins, q, v) ==
    LET below == Cardinality({j \in DOMAIN bins :
                                 ~isna(bins[j]) /\ Get(bins[j]) < q * v})
        ids   == IF bins[1] = Some(q * v) THEN 1 ELSE below
    IN  IF ids = 0 \/ ids = Len(bins) THEN NaN ELSE Some(Labels(q)[ids])

qcut_raises(x, q) == DuplicateEdges(BinEdges(x, q))

\* The edges computed with the missing values filled with 0 (no dropna).
qcut_fillna(x, q) ==
    LET filled == [i \in DOMAIN x |-> IF isna(x[i]) THEN Some(0) ELSE x[i]]
        bins == BinEdges(filled, q)
    IN  [i \in DOMAIN x |->
            IF isna(x[i]) THEN NaN ELSE BinOf(bins, q, Get(x[i]))]

\* Equal-count groups by rank, equal values ranked in index order.
qcut_by_rank(x, q) ==
    LET V == NotNa(x)
        rank(i) == Cardinality({j \in V : \/ Get(x[j]) < Get(x[i])
                                          \/ Get(x[j]) = Get(x[i]) /\ j < i})
    IN  [i \in DOMAIN x |->
            IF isna(x[i]) THEN NaN
            ELSE Some(((rank(i) * q) \div Cardinality(V)) + 1)]

qcut(x, q) ==
    LET bins == BinEdges(x, q)
    IN  [i \in DOMAIN x |->
            IF isna(x[i]) THEN NaN ELSE BinOf(bins, q, Get(x[i]))]

(***************************************************************************)
(* Cells 11 and 14: the portfolio sort.                                    *)
(***************************************************************************)
\* temp = crsp_signals[['permno', 'date', 'ret', signalname]].copy()
SelectColumns(cs, sig) ==
    [i \in DOMAIN cs |->
        [permno |-> cs[i].permno, date |-> cs[i].date, ret |-> cs[i].ret,
         signal |-> cs[i][sig]]]

DatesOf(t) == {t[i].date : i \in DOMAIN t}

\* One date's signal series, as groupby('date')[signalname] hands it over.
GroupSeries(t, d) ==
    [i \in {j \in DOMAIN t : t[j].date = d} |-> t[i].signal]

\* The lambda raises in some date's group.
TransformRaises(t, q) ==
    \E d \in DatesOf(t) : qcut_raises(GroupSeries(t, d), q)

\* temp['port'] = temp.groupby('date')[signalname].transform(qcut ...)
AssignPort(t, q) ==
    [i \in DOMAIN t |->
        [permno |-> t[i].permno, date |-> t[i].date, ret |-> t[i].ret,
         signal |-> t[i].signal,
         port |-> qcut(GroupSeries(t, t[i].date), q)[i]]]

RECURSIVE SortDates(_)
SortDates(S) ==
    IF S = {} THEN << >>
    ELSE LET d == CHOOSE a \in S : \A b \in S : DateKey(a) <= DateKey(b)
         IN  <<d>> \o SortDates(S \ {d})

\* The rows of temp in group (d, g).
GroupRows(t, d, g) ==
    {i \in DOMAIN t : t[i].date = d /\ t[i].port = Some(g)}

\* ('ret', 'count') in place of ('permno', 'count').
CountRet(t, I) == Cardinality({i \in I : ~isna(t[i].ret)})

\* ('permno', 'count'): the rows of the group whose permno is not missing;
\* permno is never missing in crsp.
CountPermno(t, I) == Cardinality(I)

\* ('ret', 'mean'): the mean of the group's non-missing returns, NaN when
\* there is none.
MeanRet(t, I) ==
    LET J == {i \in I : ~isna(t[i].ret)}
    IN  IF J = {} THEN NaN
        ELSE Some(Rat(SumInt([i \in J |-> Get(t[i].ret)], J), Cardinality(J)))

\* The table with observed=True: only the (date, category) pairs that hold
\* a row of t.
AggDatePortObserved(t, q) ==
    LET ds == SortDates(DatesOf(t))
        all == [k \in 1..(Len(ds) * q) |->
                   LET d == ds[((k - 1) \div q) + 1]
                       g == ((k - 1) % q) + 1
                   IN  [date |-> d, port |-> g,
                        nstock |-> CountPermno(t, GroupRows(t, d, g)),
                        ret |-> MeanRet(t, GroupRows(t, d, g))]]
        held(r) == GroupRows(t, r.date, r.port) # {}
    IN  SelectSeq(all, held)

\* port = temp.groupby(['date', 'port'], observed=False).agg(...).reset_index():
\* one row per date of temp and category 1..q, sorted by date then port.
AggDatePort(t, q) ==
    LET ds == SortDates(DatesOf(t))
    IN  [k \in 1..(Len(ds) * q) |->
            LET d == ds[((k - 1) \div q) + 1]
                g == ((k - 1) % q) + 1
            IN  [date |-> d, port |-> g,
                 nstock |-> CountPermno(t, GroupRows(t, d, g)),
                 ret |-> MeanRet(t, GroupRows(t, d, g))]]

\* The sample variance (ddof=1) of the rationals f[i], i in S: the square
\* of pandas' 'std', which is NaN for fewer than two values.
SampleVar(f, S) ==
    LET k == Cardinality(S)
        s == SumRat(f, S)
        ss == SumRat([i \in S |-> RatMul(f[i], f[i])], S)
    IN  IF k < 2 THEN NaN
        ELSE Some(RatDivInt(RatSub(ss, RatDivInt(RatMul(s, s), k)), k - 1))

\* The summary with date min / max taken over the rows that hold an entity.
SummarizeCoveredDates(p, q) ==
    [g \in 1..q |->
        LET R == {k \in DOMAIN p : p[k].port = g}
            V == {k \in R : ~isna(p[k].ret)}
            rets == [k \in V |-> Get(p[k].ret)]
            ds == SortDates({p[k].date : k \in {j \in R : p[j].nstock > 0}})
        IN  [ret_mean |-> IF V = {} THEN NaN
                          ELSE Some(RatDivInt(SumRat(rets, V), Cardinality(V))),
             ret_std2 |-> SampleVar(rets, V),
             nstock_mean |-> IF R = {} THEN NaN
                             ELSE Some(Rat(SumInt([k \in R |-> p[k].nstock], R),
                                           Cardinality(R))),
             date_min |-> IF ds = << >> THEN NaN ELSE Some(ds[1]),
             date_max |-> IF ds = << >> THEN NaN ELSE Some(ds[Len(ds)])]]

\* The summary with the mean return weighted by the dates' entity counts.
SummarizeWeighted(p, q) ==
    [g \in 1..q |->
        LET R == {k \in DOMAIN p : p[k].port = g}
            V == {k \in R : ~isna(p[k].ret)}
            rets == [k \in V |-> Get(p[k].ret)]
            weighted == [k \in V |-> RatMul(Rat(p[k].nstock, 1), Get(p[k].ret))]
            ds == SortDates({p[k].date : k \in R})
        IN  [ret_mean |-> IF V = {} THEN NaN
                          ELSE Some(RatDivInt(SumRat(weighted, V),
                                              SumInt([k \in V |-> p[k].nstock], V))),
             ret_std2 |-> SampleVar(rets, V),
             nstock_mean |-> IF R = {} THEN NaN
                             ELSE Some(Rat(SumInt([k \in R |-> p[k].nstock], R),
                                           Cardinality(R))),
             date_min |-> IF R = {} THEN NaN ELSE Some(ds[1]),
             date_max |-> IF R = {} THEN NaN ELSE Some(ds[Len(ds)])]]

\* port_summary = port.groupby('port', observed=False).agg(...): one record
\* per category; ret_std is recorded by its square.
Summarize(p, q) ==
    [g \in 1..q |->
        LET R == {k \in DOMAIN p : p[k].port = g}
            V == {k \in R : ~isna(p[k].ret)}
            rets == [k \in V |-> Get(p[k].ret)]
            ds == SortDates({p[k].date : k \in R})
        IN  [ret_mean |-> IF V = {} THEN NaN
                          ELSE Some(RatDivInt(SumRat(rets, V), Cardinality(V))),
             ret_std2 |-> SampleVar(rets, V),
             nstock_mean |-> IF R = {} THEN NaN
                             ELSE Some(Rat(SumInt([k \in R |-> p[k].nstock], R),
                                           Cardinality(R))),
             date_min |-> IF R = {} THEN NaN ELSE Some(ds[1]),
             date_max |-> IF R = {} THEN NaN ELSE Some(ds[Len(ds)])]]

(***************************************************************************)
(* The downloaded tables (cells 3 and 4): the inputs the model draws.      *)
(***************************************************************************)
Permnos == 1..MaxPermno

SigVals == {NaN} \cup {Some(v) : v \in 1..MaxPermno}

\* n = 5 in the notebook; the model also runs the cell with smaller n.
NGroups == (1..MaxGroups) \cup {NotebookN}

\* Two month-end dates of crsp.msf and a third month with no lagged signal.
Dec31 == Timestamp(1980, 12, 31)

Jan30 == Timestamp(1981, 1, 30)

Feb27 == Timestamp(1981, 2, 27)

\* A column of one month given by a pattern: all values distinct, all values
\* tied, or distinct with the first entity missing.
Patterns == {"distinct", "tied", "partial"}

PatternVal(g, p) ==
    CASE g = "distinct" -> Some(p)
      [] g = "tied"     -> Some(1)
      [] g = "partial"  -> IF p = 1 THEN NaN ELSE Some(p)

\* The returns: all present, or the first entity's December return missing.
RetVal(r, p, mi) ==
    CASE r = "full" -> Some(p * p + mi)
      [] r = "gap"  -> IF p = 1 /\ mi = 0 THEN NaN ELSE Some(3 * p - mi)

\* Sort-focused inputs: every entity has a signal row for 198011 and 198012
\* and a return for December 1980 and January 1981.  f gives BM of 198011
\* (and AssetGrowth of 198012), the pattern g the other two columns.
SortSignals(f, g) ==
    [k \in 1..(2 * MaxPermno) |->
        LET p == ((k - 1) % MaxPermno) + 1
            first == k <= MaxPermno
        IN  [permno |-> p,
             yyyymm |-> IF first THEN 198011 ELSE 198012,
             BM |-> IF first THEN f[p] ELSE PatternVal(g, p),
             AssetGrowth |-> IF first THEN PatternVal(g, p) ELSE f[p]]]

SortCrsp(r) ==
    [k \in 1..(2 * MaxPermno) |->
        LET p == ((k - 1) % MaxPermno) + 1
            first == k <= MaxPermno
        IN  [permno |-> p,
             date |-> IF first THEN Dec31 ELSE Jan30,
             ret |-> RetVal(r, p, IF first THEN 0 ELSE 1)]]

SortInputs ==
    {[signals |-> SortSignals(f, g),
      crsp |-> SortCrsp(IF g = "partial" THEN "gap" ELSE "full")] :
        f \in [Permnos -> SigVals], g \in Patterns}

\* Merge-focused inputs: short signal tables in any order, with repeated
\* (permno, yyyymm) keys, against return tables that hold a month with no
\* signal, a missing return and two returns of one entity in one month.
MergeSignalRows ==
    {[permno |-> p, yyyymm |-> ym, BM |-> Some(b),
      AssetGrowth |-> IF b = 1 THEN NaN ELSE Some(p)] :
        p \in 1..2, ym \in {198011, 198012}, b \in 1..2}

RECURSIVE SeqsUpTo(_, _)
SeqsUpTo(S, k) ==
    IF k = 0 THEN {<< >>}
    ELSE LET shorter == SeqsUpTo(S, k - 1)
         IN  shorter \cup {Append(s, e) : s \in {t \in shorter : Len(t) = k - 1}, e \in S}

MergeCrsp1 ==
    <<[permno |-> 1, date |-> Dec31, ret |-> Some(4)],
      [permno |-> 2, date |-> Dec31, ret |-> Some(6)],
      [permno |-> 1, date |-> Jan30, ret |-> Some(2)],
      [permno |-> 2, date |-> Jan30, ret |-> NaN],
      [permno |-> 1, date |-> Feb27, ret |-> Some(5)]>>

MergeCrsp2 ==
    <<[permno |-> 1, date |-> Timestamp(1980, 12, 30), ret |-> Some(1)],
      [permno |-> 1, date |-> Dec31, ret |-> Some(3)],
      [permno |-> 2, date |-> Timestamp(1981, 1, 28), ret |-> Some(7)]>>

MergeInputs ==
    {[signals |-> s, crsp |-> c] :
        s \in SeqsUpTo(MergeSignalRows, MaxSignalRows),
        c \in {MergeCrsp1, MergeCrsp2}}

\* The cross-section of the spec's scenario: ten entities with the signal
\* values 1..10 in one month.
ScenarioPermnos == 1..10

ScenarioInputs ==
    {[signals |-> [p \in ScenarioPermnos |->
                      [permno |-> p, yyyymm |-> 198011, BM |-> Some(p),
                       AssetGrowth |-> Some(11 - p)]],
      crsp |-> [p \in ScenarioPermnos |->
                      [permno |-> p, date |-> Dec31, ret |-> Some(p % 4)]]]}

\* Cross-sections with repeated signal values: four entities in one month,
\* BM taking any of three values and AssetGrowth in the opposite order.
TiePermnos == 1..4

TieVals == 1..3

TieInputs ==
    {[signals |-> [p \in TiePermnos |->
                      [permno |-> p, yyyymm |-> 198011, BM |-> Some(f[p]),
                       AssetGrowth |-> Some(4 - f[p])]],
      crsp |-> [p \in TiePermnos |->
                      [permno |-> p, date |-> Dec31, ret |-> Some(2 * p)]]] :
        f \in [TiePermnos -> TieVals]}

Inputs == SortInputs \cup MergeInputs \cup ScenarioInputs \cup TieInputs

(***************************************************************************)
(* The notebook as a state machine: one action per cell.                   *)
(***************************************************************************)
Init ==
    /\ \E in \in Inputs : signals = in.signals /\ crsp = in.crsp
    /\ signals_lag = << >>
    /\ crsp_signals = << >>
    /\ n = 0
    /\ signalname = ""
    /\ temp = << >>
    /\ port = << >>
    /\ port_summary = << >>
    /\ err = "none"
    /\ pc = "lag"

\* Cell 7.
LagSignals ==
    /\ pc = "lag"
    /\ signals_lag' = LagTable(signals)
    /\ pc' = "merge"
    /\ UNCHANGED <<signals, crsp, crsp_signals, n, signalname, temp, port,
                   port_summary, err>>

\* Cell 9: crsp is changed in place, then joined.
MergeCrsp ==
    /\ pc = "merge"
    /\ crsp' = CrspTo28th(crsp)
    /\ crsp_signals' = merge_left(CrspTo28th(crsp), signals_lag)
    /\ pc' = "sortBM"
    /\ UNCHANGED <<signals, signals_lag, n, signalname, temp, port,
                   port_summary, err>>

\* temp = crsp_signals without the column selection and the .copy(): temp is
\* the merged table itself, and temp['port'] = ... adds the column to it.
SourceAfterAlias(cs, t) ==
    [i \in DOMAIN cs |->
        [f \in DOMAIN cs[i] \cup {"port"} |->
            IF f = "port" THEN t[i].port ELSE cs[i][f]]]

\* crsp_signals after temp['port'] = ...: temp is a .copy() of the selected
\* columns, so the assignment does not reach the merged table.
SourceAfterCopy(cs, t) == cs

\* Cells 11 and 14 with n = q and signalname = sig.  When qcut raises in the
\* transform the cell stops there: temp holds the copy, port and
\* port_summary keep what they held.
PortfolioSort(sig, q) ==
    LET t0 == SelectColumns(crsp_signals, sig)
    IN  /\ n' = q
        /\ signalname' = sig
        /\ IF TransformRaises(t0, q)
           THEN /\ temp' = t0
                /\ err' = "ValueError"
                /\ UNCHANGED <<port, port_summary, crsp_signals>>
           ELSE /\ temp' = AssignPort(t0, q)
                /\ crsp_signals' = SourceAfterCopy(crsp_signals, AssignPort(t0, q))
                /\ port' = AggDatePort(AssignPort(t0, q), q)
                /\ port_summary' = Summarize(AggDatePort(AssignPort(t0, q), q), q)
                /\ err' = "none"
        /\ UNCHANGED <<signals, crsp, signals_lag>>

SortBM ==
    /\ pc = "sortBM"
    /\ \E q \in NGroups : PortfolioSort("BM", q)
    /\ pc' = "sortAG"

SortAG ==
    /\ pc = "sortAG"
    /\ \E q \in NGroups : PortfolioSort("AssetGrowth", q)
    /\ pc' = "done"

Next == LagSignals \/ MergeCrsp \/ SortBM \/ SortAG

Spec == Init /\ [][Next]_vars

(***************************************************************************)
(* Properties.                                                             *)
(***************************************************************************)
\* A portfolio-sort cell has run (its outcome is in err, n, temp ...).
Sorted == pc \in {"sortAG", "done"}

SortedOk == Sorted /\ err = "none"

\* The non-missing signal values of date d in temp.
DistinctVals(t, d) ==
    LET x == GroupSeries(t, d) IN {Get(x[i]) : i \in NotNa(x)}

\* The rows of date d put in group g.
InGroup(d, g) == {i \in DOMAIN temp : temp[i].date = d /\ temp[i].port = Some(g)}

MonthIndex(y, m) == y * 12 + m - 1

\* C1: when the sort succeeds, every observation with a non-missing signal
\* holds one group label, an integer of 1..n.
C1_NonMissingLabelled ==
    SortedOk =>
        \A i \in DOMAIN temp :
            ~isna(temp[i].signal) => \E g \in 1..n : temp[i].port = Some(g)

C1_Witness ==
    /\ SortedOk /\ n >= 2
    /\ \E i, j \in DOMAIN temp :
          /\ temp[i].date = temp[j].date
          /\ isna(temp[i].signal)
          /\ ~isna(temp[j].signal) /\ temp[j].port = Some(n)

\* C2: within each date, the observations with a missing signal hold no
\* label, and every other observation holds the label it gets when the
\* date's missing-signal observations are removed before the quantile cut;
\* removing them does not change whether the cut of that date raises.
C2_MissingHaveNoInfluence ==
    Sorted =>
        \A d \in DatesOf(temp) :
            LET x == GroupSeries(temp, d)
                kept == [i \in NotNa(x) |-> x[i]]
            IN  /\ NotNa(x) # {} => (qcut_raises(kept, n) <=> qcut_raises(x, n))
                /\ err = "none" =>
                      \A i \in DOMAIN x :
                          temp[i].port = IF isna(x[i]) THEN NaN ELSE qcut(kept, n)[i]

C2_Witness ==
    /\ SortedOk /\ n >= 2
    /\ \E d \in DatesOf(temp) :
          /\ Cardinality(DistinctVals(temp, d)) >= 2
          /\ \E i \in DOMAIN temp :
                temp[i].date = d /\ isna(temp[i].signal) /\ isna(temp[i].port)

\* C3: for every date, the nstock of the date's rows of port add up to the
\* number of the date's observations with a non-missing signal.
C3_CountsAddUp ==
    SortedOk =>
        \A d \in DatesOf(temp) :
            LET K == {k \in DOMAIN port : port[k].date = d}
            IN  /\ {port[k].port : k \in K} = 1..n
                /\ SumInt([k \in K |-> port[k].nstock], K)
                     = Cardinality(NotNa(GroupSeries(temp, d)))

C3_Witness ==
    /\ SortedOk /\ n >= 2
    /\ \E i, j \in DOMAIN temp :
          /\ temp[i].date = temp[j].date
          /\ isna(temp[i].signal)
          /\ ~isna(temp[j].signal) /\ isna(temp[j].ret)

\* C4: in every date, group 1 and group n are not empty when n >= 2 and the
\* date has a signal, and the average signal of group 1 is at most the
\* average signal of group n.
C4_LowestBelowHighest ==
    SortedOk =>
        \A d \in DatesOf(temp) :
            LET lo == InGroup(d, 1)
                hi == InGroup(d, n)
                sum(I) == SumInt([i \in I |-> Get(temp[i].signal)], I)
            IN  /\ (n >= 2 /\ DistinctVals(temp, d) # {}) => (lo # {} /\ hi # {})
                /\ (lo # {} /\ hi # {}) =>
                      sum(lo) * Cardinality(hi) <= sum(hi) * Cardinality(lo)

C4_Witness ==
    /\ SortedOk /\ n >= 3
    /\ \E d \in DatesOf(temp) :
          /\ Cardinality(InGroup(d, 1)) >= 2
          /\ InGroup(d, n) # {}

\* C5: a date whose k*n observations with a signal hold pairwise distinct
\* values is cut into n groups of k: the observation with r smaller values
\* in its date is in group (r div k) + 1, so group 1 holds the k smallest
\* values and group n the k largest.
C5_EqualCount ==
    SortedOk =>
        \A d \in DatesOf(temp) :
            LET x == GroupSeries(temp, d)
                I == NotNa(x)
                m == Cardinality(I)
                k == m \div n
                rank(i) == Cardinality({j \in I : Get(x[j]) < Get(x[i])})
            IN  (m > 0 /\ m % n = 0 /\ Cardinality(DistinctVals(temp, d)) = m) =>
                    /\ \A g \in 1..n : Cardinality(InGroup(d, g)) = k
                    /\ \A i \in I : temp[i].port = Some((rank(i) \div k) + 1)

\* The spec's scenario: values 1..10 and n = 5.
C5_Witness ==
    /\ SortedOk /\ n = 5 /\ Len(temp) = 10
    /\ \E d \in DatesOf(temp) :
          /\ DistinctVals(temp, d) = 1..10
          /\ {Get(temp[i].signal) : i \in InGroup(d, 1)} = {1, 2}
          /\ {Get(temp[i].signal) : i \in InGroup(d, 5)} = {9, 10}
          /\ \A g \in 1..5 : Cardinality(InGroup(d, g)) = 2

C7_FailsWhenFewerThanN ==
    (Sorted /\ n >= 2
            /\ \E d \in DatesOf(temp) :
                  Cardinality(NotNa(GroupSeries(temp, d))) < n)
        => err # "none"

\* A date of t whose observations hold at most one distinct signal value.
Degenerate(t) == \E d \in DatesOf(t) : Cardinality(DistinctVals(t, d)) <= 1

\* C7 amended: when n >= 2 and some date holds at most one distinct
\* non-missing signal value (none, or one value however often), the cell
\* raises and assigns neither port nor port_summary, whatever the other
\* dates hold.
C7_FailsWhenDegenerate ==
    [][(pc \in {"sortBM", "sortAG"} /\ n' >= 2 /\ Degenerate(temp'))
          => (err' = "ValueError" /\ port' = port /\ port_summary' = port_summary)]_vars

C7_Witness ==
    /\ pc = "done" /\ err = "ValueError" /\ n >= 2
    /\ port # << >> /\ Len(port_summary) # n
    /\ Degenerate(temp)
    /\ \E d \in DatesOf(temp) : Cardinality(DistinctVals(temp, d)) >= n

\* C8: in every row of signals_lag, and in every row of crsp_signals that
\* matched a signal, date is the 28th of the calendar month that follows
\* the month of yyyymm_signals, December being followed by January of the
\* next year.
OneMonthAfter(date, yyyymm) ==
    /\ date.month \in 1..12
    /\ date.day = 28
    /\ MonthIndex(date.year, date.month)
         = MonthIndex(yyyymm \div 100, yyyymm % 100) + 1

C8_LagInvariant ==
    /\ \A i \in DOMAIN signals_lag :
          OneMonthAfter(signals_lag[i].date, signals_lag[i].yyyymm_signals)
    /\ \A i \in DOMAIN crsp_signals :
          ~isna(crsp_signals[i].yyyymm_signals) =>
              OneMonthAfter(crsp_signals[i].date,
                            Get(crsp_signals[i].yyyymm_signals))

C8_Witness ==
    \E i, j \in DOMAIN crsp_signals :
        /\ crsp_signals[i].yyyymm_signals = Some(198012)
        /\ crsp_signals[i].date = Timestamp(1981, 1, 28)
        /\ crsp_signals[j].yyyymm_signals = Some(198011)
        /\ crsp_signals[j].date = Timestamp(1980, 12, 28)

\* C9: after the merge every row of crsp is in crsp_signals with its
\* permno, date and ret (as often as in crsp, and crsp_signals holds no
\* other return row), a row of crsp with no signal of the same permno for
\* the month before is kept with missing signal columns, and when
\* (permno, yyyymm) is unique in signals, crsp_signals is crsp row for row.
ReturnColumns(r) == [permno |-> r.permno, date |-> r.date, ret |-> r.ret]

SignalKeyUnique ==
    \A i, j \in DOMAIN signals :
        (signals[i].permno = signals[j].permno
            /\ signals[i].yyyymm = signals[j].yyyymm) => i = j

HasLaggedSignal(c) ==
    \E k \in DOMAIN signals :
        /\ signals[k].permno = c.permno
        /\ MonthIndex(signals[k].yyyymm \div 100, signals[k].yyyymm % 100) + 1
             = MonthIndex(c.date.year, c.date.month)

C9_LeftJoinPreserves ==
    pc \in {"sortBM", "sortAG", "done"} =>
        /\ \A i \in DOMAIN crsp :
              Cardinality({j \in DOMAIN crsp_signals :
                              ReturnColumns(crsp_signals[j]) = crsp[i]})
                >= Cardinality({k \in DOMAIN crsp : crsp[k] = crsp[i]})
        /\ \A j \in DOMAIN crsp_signals :
              \E i \in DOMAIN crsp : ReturnColumns(crsp_signals[j]) = crsp[i]
        /\ \A i \in DOMAIN crsp :
              ~HasLaggedSignal(crsp[i]) =>
                  \E j \in DOMAIN crsp_signals :
                      crsp_signals[j] = UnmatchedRow(crsp[i])
        /\ SignalKeyUnique =>
              /\ Len(crsp_signals) = Len(crsp)
              /\ \A i \in DOMAIN crsp : ReturnColumns(crsp_signals[i]) = crsp[i]

C9_Witness ==
    /\ pc = "sortBM" /\ SignalKeyUnique /\ Len(signals) >= 2
    /\ \E i, j \in DOMAIN crsp_signals :
          /\ isna(crsp_signals[i].yyyymm_signals)
          /\ ~isna(crsp_signals[j].yyyymm_signals)

\* The step leaves the merged table as it was.
SourceKept ==
    /\ crsp_signals' = crsp_signals
    /\ \A i \in DOMAIN crsp_signals' : "port" \notin DOMAIN (crsp_signals'[i])

\* C11: a portfolio-sort cell leaves crsp_signals as it was, whether it
\* succeeds or raises: the same rows, columns (no port column) and values.
C11_SourceUntouched == 
    [][(pc \in {"sortBM", "sortAG"}) => SourceKept]_vars

\* Both cells have run on a merged table, one succeeding (temp of the
\* failed one has no labels, port is the first cell's) and one raising.
C11_Witness ==
    /\ pc = "done" /\ err = "ValueError" /\ port # << >>
    /\ Len(crsp_signals) >= 2
    /\ \A i \in DOMAIN crsp_signals :
          DOMAIN crsp_signals[i]
            = {"permno", "date", "ret", "yyyymm_signals", "BM", "AssetGrowth"}

\* The dates in which group g holds at least one observation.
Covered(g) == {d \in DatesOf(temp) : InGroup(d, g) # {}}

\* d is the earliest (latest) date of the set D.
IsEarliest(d, D) == d \in D /\ \A e \in D : DateKey(d) <= DateKey(e)

IsLatest(d, D) == d \in D /\ \A e \in D : DateKey(e) <= DateKey(d)

\* C12 as claimed: one record per group label 1..n, whose first and last
\* period are the earliest and latest date in which the group holds an
\* observation.
C12_DatesCoveredByGroup ==
    (SortedOk /\ n >= 2) =>
        /\ DOMAIN port_summary = 1..n
        /\ \A g \in 1..n :
              Covered(g) # {} =>
                  /\ ~isna(port_summary[g].date_min)
                  /\ IsEarliest(Get(port_summary[g].date_min), Covered(g))
                  /\ ~isna(port_summary[g].date_max)
                  /\ IsLatest(Get(port_summary[g].date_max), Covered(g))

\* C12 amended: one record per group label 1..n, whose first and last
\* period are the earliest and latest date of the whole table, whether or
\* not the group holds an observation in them.
C12_DatesOfWholeInput ==
    SortedOk =>
        /\ DOMAIN port_summary = 1..n
        /\ \A g \in 1..n :
              /\ ~isna(port_summary[g].date_min)
              /\ IsEarliest(Get(port_summary[g].date_min), DatesOf(temp))
              /\ ~isna(port_summary[g].date_max)
              /\ IsLatest(Get(port_summary[g].date_max), DatesOf(temp))

\* A group that holds observations in the later date only, and a group
\* that holds none at all.
C12_Witness ==
    /\ SortedOk /\ n >= 3
    /\ Cardinality(DatesOf(temp)) = 2
    /\ \E g \in 1..n :
          /\ Covered(g) # {}
          /\ \E d \in DatesOf(temp) : d \notin Covered(g) /\ IsEarliest(d, DatesOf(temp))
    /\ \E g \in 1..n : Covered(g) = {}

\* The observations of group (d, g) that hold a return.
WithRet(d, g) == {i \in InGroup(d, g) : ~isna(temp[i].ret)}

\* The mean return of group g in date d, over the observations with a return.
PeriodMean(d, g) ==
    Rat(SumInt([i \in WithRet(d, g) |-> Get(temp[i].ret)], WithRet(d, g)),
        Cardinality(WithRet(d, g)))

\* The dates in which group g has a mean return.
DatesWithMean(g) == {d \in DatesOf(temp) : WithRet(d, g) # {}}

\* The mean over dates, each date counting once, of group g's mean returns.
MeanOfPeriodMeans(g) ==
    RatDivInt(SumRat([d \in DatesWithMean(g) |-> PeriodMean(d, g)],
                     DatesWithMean(g)),
              Cardinality(DatesWithMean(g)))

\* The mean return of all observations of group g, whatever their date.
PooledMean(g) ==
    LET I == UNION {WithRet(d, g) : d \in DatesOf(temp)}
    IN  Rat(SumInt([i \in I |-> Get(temp[i].ret)], I), Cardinality(I))

\* C13: each row of port holds the entity count and the mean return of its
\* (date, group); each record of port_summary holds the mean over dates of
\* the group's per-date mean returns, every date with a mean counting once,
\* and the mean over dates of the group's per-date entity counts.
C13_TwoStageAggregation ==
    SortedOk =>
        /\ \A k \in DOMAIN port :
              /\ port[k].nstock = Cardinality(InGroup(port[k].date, port[k].port))
              /\ port[k].ret =
                    IF WithRet(port[k].date, port[k].port) = {} THEN NaN
                    ELSE Some(PeriodMean(port[k].date, port[k].port))
        /\ \A g \in 1..n :
              /\ port_summary[g].ret_mean =
                    IF DatesWithMean(g) = {} THEN NaN
                    ELSE Some(MeanOfPeriodMeans(g))
              /\ port_summary[g].nstock_mean =
                    Some(Rat(SumInt([d \in DatesOf(temp) |->
                                        Cardinality(InGroup(d, g))], DatesOf(temp)),
                             Cardinality(DatesOf(temp))))

\* A group whose dates hold different numbers of entities, so that the mean
\* of its per-date means is not the mean of its pooled observations.
C13_Witness ==
    /\ SortedOk /\ n >= 2
    /\ \E g \in 1..n :
          /\ Cardinality(DatesWithMean(g)) = 2
          /\ port_summary[g].ret_mean # Some(PooledMean(g))

\* C14: in a completed sort, two observations of one date with non-missing
\* signals a < b have group(a) <= group(b), and two with equal signals have
\* the same group.
C14_OrderPreserving ==
    SortedOk =>
        \A i, j \in DOMAIN temp :
            (/\ temp[i].date = temp[j].date
             /\ ~isna(temp[i].signal)
             /\ ~isna(temp[j].signal)) =>
                /\ Get(temp[i].signal) < Get(temp[j].signal)
                      => Get(temp[i].port) <= Get(temp[j].port)
                /\ Get(temp[i].signal) = Get(temp[j].signal)
                      => temp[i].port = temp[j].port

\* A completed sort into two or more groups of a date that holds two
\* observations with equal signals, a smaller signal in the same group as
\* the pair and a larger signal in a higher group.
C14_Witness ==
    /\ SortedOk /\ n >= 2
    /\ \E i, j, k, l \in DOMAIN temp :
          /\ i # j
          /\ temp[i].date = temp[j].date
          /\ temp[k].date = temp[i].date
          /\ temp[l].date = temp[i].date
          /\ ~isna(temp[i].signal) /\ ~isna(temp[j].signal)
          /\ ~isna(temp[k].signal) /\ ~isna(temp[l].signal)
          /\ Get(temp[i].signal) = Get(temp[j].signal)
          /\ Get(temp[k].signal) < Get(temp[i].signal)
          /\ Get(temp[l].signal) > Get(temp[i].signal)
          /\ temp[k].port = temp[i].port
          /\ Get(temp[l].port) > Get(temp[i].port)

\* The rows of port of group g, and those of them that hold a mean return.
PortRows(g) == {k \in DOMAIN port : port[k].port = g}

PortRowsWithRet(g) == {k \in PortRows(g) : ~isna(port[k].ret)}

\* The mean of the mean returns of the rows K of port.
MeanOver(K) ==
    RatDivInt(SumRat([k \in K |-> Get(port[k].ret)], K), Cardinality(K))

\* The sum over the rows K of port of the squared deviation from their mean,
\* divided by one less than their number.
VarOver(K) ==
    LET dev(k) == RatSub(Get(port[k].ret), MeanOver(K))
    IN  RatDivInt(SumRat([k \in K |-> RatMul(dev(k), dev(k))], K),
                  Cardinality(K) - 1)

\* C15: port holds exactly one row for every date of the input and every
\* group label 1..n; the row of a (date, group) with no observation has
\* count 0 and a missing mean return; in port_summary such a row counts as 0
\* in the group's average count over all dates, is left out of the group's
\* mean and standard deviation of return, and gives every group the first
\* and last date of the whole input.
C15_EveryDateAndGroup ==
    SortedOk =>
        /\ Len(port) = Cardinality(DatesOf(temp)) * n
        /\ \A d \in DatesOf(temp), g \in 1..n :
              \E k \in DOMAIN port :
                  /\ port[k].date = d /\ port[k].port = g
                  /\ InGroup(d, g) = {} =>
                        port[k].nstock = 0 /\ isna(port[k].ret)
        /\ \A g \in 1..n :
              /\ port_summary[g].nstock_mean =
                    Some(Rat(SumInt([k \in PortRows(g) |-> port[k].nstock],
                                    {k \in PortRows(g) : port[k].nstock > 0}),
                             Cardinality(DatesOf(temp))))
              /\ port_summary[g].ret_mean =
                    IF PortRowsWithRet(g) = {} THEN NaN
                    ELSE Some(MeanOver(PortRowsWithRet(g)))
              /\ port_summary[g].ret_std2 =
                    IF Cardinality(PortRowsWithRet(g)) < 2 THEN NaN
                    ELSE Some(VarOver(PortRowsWithRet(g)))
              /\ \E d \in DatesOf(temp) :
                    IsEarliest(d, DatesOf(temp)) /\ port_summary[g].date_min = Some(d)
              /\ \E d \in DatesOf(temp) :
                    IsLatest(d, DatesOf(temp)) /\ port_summary[g].date_max = Some(d)

\* A completed sort into two or more groups in which a group holds no
\* observation in the first date and some in the last.
C15_Witness ==
    /\ SortedOk /\ n >= 2
    /\ \E g \in 1..n, d, e \in DatesOf(temp) :
          /\ d # e
          /\ IsEarliest(d, DatesOf(temp))
          /\ InGroup(d, g) = {}
          /\ InGroup(e, g) # {}
          /\ \E k \in PortRows(g) : port[k].date = d /\ port[k].nstock = 0

====
